---- MODULE Spec2Model ----
(***************************************************************************)
(* Model of pysurfer/io.py: the FreeSurfer binary decoders (read_geometry, *)
(* read_curvature, load_scalar_data, read_annot, read_label) and the       *)
(* Surface container built on them.                                        *)
(*                                                                         *)
(* The module is Python 2 code (xrange at io.py:142, no                    *)
(* "from __future__ import division"), so "/" between integers is floor    *)
(* division and dict(name=v) is the keyword form of the dict constructor.  *)
(* Files are sequences of bytes (0..255); a stream position is a 0-based   *)
(* byte offset.  Floating-point values are kept exactly, as dyadic         *)
(* rationals m * 2^e.                                                      *)
(***************************************************************************)
EXTENDS Integers, Sequences, FiniteSets, TLC

(* ------------------------------------------------------------------ *)
(* Bounds of the model                                                  *)
(* ------------------------------------------------------------------ *)
MaxVtx == 2
MaxFaces == 1
MaxEntries == 2
MaxRows == 2

(* ------------------------------------------------------------------ *)
(* Generic helpers                                                      *)
(* ------------------------------------------------------------------ *)
Min(a, b) == IF a < b THEN a ELSE b

Max(a, b) == IF a < b THEN b ELSE a

RECURSIVE Pow2(_)
Pow2(n) == IF n <= 0 THEN 1 ELSE 2 * Pow2(n - 1)

Slice(s, from, n) == [i \in 1..n |-> s[from + i]]

RECURSIVE Concat(_)
Concat(ss) == IF ss = <<>> THEN <<>> ELSE Head(ss) \o Concat(Tail(ss))

(* ------------------------------------------------------------------ *)
(* Python results: a returned value or a raised exception               *)
(* ------------------------------------------------------------------ *)
(* pos is the stream offset reached when the call ended (0 when no stream  *)
(* was read).                                                              *)
Raise(e, p) == [kind |-> "raise", exc |-> e, val |-> <<>>, pos |-> p]

Return(k, v, p) == [kind |-> k, exc |-> "", val |-> v, pos |-> p]

ReturnNone(p) == Return("none", <<>>, p)

(* ------------------------------------------------------------------ *)
(* Big-endian field decoding                                            *)
(* ------------------------------------------------------------------ *)
U24(b) == b[1] * 65536 + b[2] * 256 + b[3]

S8(b) == IF b[1] >= 128 THEN b[1] - 256 ELSE b[1]

S16(b) == (IF b[1] >= 128 THEN b[1] - 256 ELSE b[1]) * 256 + b[2]

S32(b) == (IF b[1] >= 128 THEN b[1] - 256 ELSE b[1]) * 16777216
          + b[2] * 65536 + b[3] * 256 + b[4]

(* Exact floating-point values: kind "fin" is m * 2^e (m = 0, or m odd),  *)
(* "inf" carries its sign in m, "nan" is not-a-number.                     *)
RECURSIVE DyNorm(_, _)
DyNorm(m, e) ==
  IF m = 0 THEN [k |-> "fin", m |-> 0, e |-> 0]
  ELSE IF m % 2 = 0 THEN DyNorm(m \div 2, e + 1)
  ELSE [k |-> "fin", m |-> m, e |-> e]

DyInt(n) == DyNorm(n, 0)

DyInf(s) == [k |-> "inf", m |-> s, e |-> 0]

DyNaN == [k |-> "nan", m |-> 0, e |-> 0]

DySign(a) == IF a.m > 0 THEN 1 ELSE IF a.m < 0 THEN -1 ELSE 0

DyMulInt(a, n) ==
  IF a.k = "nan" THEN DyNaN
  ELSE IF a.k = "inf" THEN (IF n = 0 THEN DyNaN ELSE DyInf(DySign(a) * (IF n > 0 THEN 1 ELSE -1)))
  ELSE DyNorm(a.m * n, a.e)

DyAdd(a, b) ==
  IF a.k = "nan" \/ b.k = "nan" THEN DyNaN
  ELSE IF a.k = "inf" /\ b.k = "inf" THEN (IF a.m = b.m THEN a ELSE DyNaN)
  ELSE IF a.k = "inf" THEN a
  ELSE IF b.k = "inf" THEN b
  ELSE LET e == Min(a.e, b.e)
       IN DyNorm(a.m * Pow2(a.e - e) + b.m * Pow2(b.e - e), e)

DyPositive(a) == a.k # "nan" /\ a.m > 0

(* IEEE-754 binary32, big-endian *)
F32(b) ==
  LET s == IF b[1] >= 128 THEN -1 ELSE 1
      ex == (b[1] % 128) * 2 + (b[2] \div 128)
      fr == (b[2] % 128) * 65536 + b[3] * 256 + b[4]
  IN IF ex = 255 THEN (IF fr = 0 THEN DyInf(s) ELSE DyNaN)
     ELSE IF ex = 0 THEN DyNorm(s * fr, -149)
     ELSE DyNorm(s * (8388608 + fr), ex - 150)

(* ------------------------------------------------------------------ *)
(* Stream reads                                                         *)
(* ------------------------------------------------------------------ *)
(* np.fromfile(fobj, dtype, count) on stream bs at offset pos: the whole   *)
(* items that are available, at most count of them (all of them when       *)
(* count is negative); a short read is not an error.                       *)
fromfile(bs, pos, width, count) ==
  LET avail == Max(Len(bs) - pos, 0) \div width
      n == IF count < 0 THEN avail ELSE Min(count, avail)
  IN [n |-> n,
      items |-> [i \in 1..n |-> Slice(bs, pos + (i - 1) * width, width)],
      pos |-> IF n = count THEN pos + n * width ELSE Max(Len(bs), pos)]

(* fobj.read(n): up to n bytes, fewer at end of file; all of the rest when *)
(* n is negative                                                           *)
read(bs, pos, n) ==
  LET rest == Max(Len(bs) - pos, 0)
      k == IF n < 0 THEN rest ELSE Min(n, rest)
  IN [bytes |-> Slice(bs, pos, k), pos |-> pos + k]

(* fobj.readline(): through the next newline or to end of file *)
RECURSIVE readline(_, _)
readline(bs, pos) ==
  IF pos >= Len(bs) THEN pos
  ELSE IF bs[pos + 1] = 10 THEN pos + 1
  ELSE readline(bs, pos + 1)

_fread3(bs, pos) ==
  LET r == fromfile(bs, pos, 1, 3)
  IN IF r.n # 3 THEN [err |-> TRUE, val |-> 0, pos |-> r.pos]
     ELSE [err |-> FALSE, val |-> U24(Slice(bs, pos, 3)), pos |-> r.pos]

(* a.reshape(rows, cols) of a flat array of n items: the row count, or -2   *)
(* when numpy raises ValueError (rows = -1 asks numpy to infer it)          *)
reshape(n, rows, cols) ==
  IF rows = -1 THEN (IF n % cols = 0 THEN n \div cols ELSE -2)
  ELSE IF rows < 0 THEN -2
  ELSE IF n = rows * cols THEN rows
  ELSE -2

(* the rows of a reshaped array of big-endian float32 or int32 items *)
FloatRows(items, nrows, ncols) ==
  [i \in 1..nrows |-> [j \in 1..ncols |-> F32(items[(i - 1) * ncols + j])]]

IntRows(items, nrows, ncols) ==
  [i \in 1..nrows |-> [j \in 1..ncols |-> S32(items[(i - 1) * ncols + j])]]

(* ------------------------------------------------------------------ *)
(* read_geometry                                                        *)
(* ------------------------------------------------------------------ *)
read_geometry_body(bs) ==
  LET magic == _fread3(bs, 0)
  IN IF magic.err THEN Raise("ValueError", magic.pos)
     ELSE IF magic.val = 16777215 THEN Raise("NotImplementedError", magic.pos)
     ELSE IF magic.val # 16777214 THEN Raise("ValueError", magic.pos)
     ELSE
       LET p1 == readline(bs, magic.pos)
           p2 == readline(bs, p1)
           v == fromfile(bs, p2, 4, 1)
       IN IF v.n = 0 THEN Raise("IndexError", v.pos)
          ELSE
            LET vnum == S32(v.items[1])
                f == fromfile(bs, v.pos, 4, 1)
            IN IF f.n = 0 THEN Raise("IndexError", f.pos)
               ELSE
                 LET fnum == S32(f.items[1])
                     c == fromfile(bs, f.pos, 4, vnum * 3)
                     crows == reshape(c.n, vnum, 3)
                 IN IF crows = -2 THEN Raise("ValueError", c.pos)
                    ELSE
                      LET t == fromfile(bs, c.pos, 4, fnum * 3)
                          trows == reshape(t.n, fnum, 3)
                      IN IF trows = -2 THEN Raise("ValueError", t.pos)
                         ELSE Return("geom",
                                     [coords |-> FloatRows(c.items, crows, 3),
                                      faces |-> IntRows(t.items, trows, 3)],
                                     t.pos)

(* ------------------------------------------------------------------ *)
(* read_curvature                                                       *)
(* ------------------------------------------------------------------ *)
(* ndarray(int16) / 100 under Python 2: element-wise floor division       *)
DivideBy100(r) == r \div 100

read_curvature_body(bs) ==
  LET magic == _fread3(bs, 0)
  IN IF magic.err THEN Raise("ValueError", magic.pos)
     ELSE IF magic.val = 16777215 THEN
       LET h == fromfile(bs, magic.pos, 4, 3)
       IN IF h.n = 0 THEN Raise("IndexError", h.pos)
          ELSE
            LET vnum == S32(h.items[1])
                d == fromfile(bs, h.pos, 4, vnum)
            IN Return("array",
                      [dtype |-> "f4", data |-> [i \in 1..d.n |-> F32(d.items[i])]],
                      d.pos)
     ELSE
       LET vnum == magic.val
           skip == _fread3(bs, magic.pos)
       IN IF skip.err THEN Raise("ValueError", skip.pos)
          ELSE
            LET d == fromfile(bs, skip.pos, 2, vnum)
            IN Return("array",
                      [dtype |-> "i2",
                       data |-> [i \in 1..d.n |-> DyInt(DivideBy100(S16(d.items[i])))]],
                      d.pos)

(* ------------------------------------------------------------------ *)
(* load_scalar_data                                                     *)
(* ------------------------------------------------------------------ *)
(* np.fromstring(s, dtype): ValueError unless len(s) is a multiple of the   *)
(* element size; the empty string gives the empty array                     *)
fromstring(bytes, width) ==
  IF Len(bytes) % width # 0 THEN [err |-> TRUE, n |-> 0, items |-> <<>>]
  ELSE [err |-> FALSE, n |-> Len(bytes) \div width,
        items |-> [i \in 1..(Len(bytes) \div width) |->
                     Slice(bytes, (i - 1) * width, width)]]

(* np.fromstring(fobj.read(4), ">i4")[0] *)
ReadInt4(bs, pos) ==
  LET r == read(bs, pos, 4)
      a == fromstring(r.bytes, 4)
  IN IF a.err THEN [exc |-> "ValueError", val |-> 0, pos |-> r.pos]
     ELSE IF a.n = 0 THEN [exc |-> "IndexError", val |-> 0, pos |-> r.pos]
     ELSE [exc |-> "", val |-> S32(a.items[1]), pos |-> r.pos]

(* the FS datatype codes: bytes per voxel and numpy type *)
DataTypes == {0, 1, 3, 4}

databytes(datatype) ==
  CASE datatype = 0 -> 1 [] datatype = 1 -> 4 [] datatype = 3 -> 4 [] datatype = 4 -> 2

typecode(datatype) ==
  CASE datatype = 0 -> "i1" [] datatype = 1 -> "i4" [] datatype = 3 -> "f4" [] datatype = 4 -> "h"

DataOffset == 284

DecodeItem(tc, b) ==
  CASE tc = "i1" -> DyInt(S8(b)) [] tc = "i4" -> DyInt(S32(b))
    [] tc = "f4" -> F32(b) [] tc = "h" -> DyInt(S16(b))

(* the try block of load_scalar_data: scalar_data is the local array it     *)
(* decodes, exc the exception that leaves the block                         *)
scalar_try_block(bs) ==
  LET none == [dtype |-> "", data |-> <<>>]
      Fail(e, p) == [exc |-> e, scalar_data |-> none, pos |-> p]
      v == ReadInt4(bs, 0)
  IN IF v.exc # "" THEN Fail(v.exc, v.pos)
     ELSE IF v.val # 1 THEN Fail("NotImplementedError", v.pos)
     ELSE
       LET ndim1 == ReadInt4(bs, v.pos) IN
       IF ndim1.exc # "" THEN Fail(ndim1.exc, ndim1.pos) ELSE
       LET ndim2 == ReadInt4(bs, ndim1.pos) IN
       IF ndim2.exc # "" THEN Fail(ndim2.exc, ndim2.pos) ELSE
       LET ndim3 == ReadInt4(bs, ndim2.pos) IN
       IF ndim3.exc # "" THEN Fail(ndim3.exc, ndim3.pos) ELSE
       LET nframes == ReadInt4(bs, ndim3.pos) IN
       IF nframes.exc # "" THEN Fail(nframes.exc, nframes.pos) ELSE
       LET datatype == ReadInt4(bs, nframes.pos) IN
       IF datatype.exc # "" THEN Fail(datatype.exc, datatype.pos) ELSE
       IF datatype.val \notin DataTypes THEN Fail("KeyError", datatype.pos) ELSE
       LET nbytes == ndim1.val * ndim2.val * ndim3.val * nframes.val
                     * databytes(datatype.val)
           r == read(bs, DataOffset, nbytes)
           a == fromstring(r.bytes, databytes(datatype.val))
       IN IF a.err THEN Fail("ValueError", r.pos)
          ELSE [exc |-> "",
                scalar_data |-> [dtype |-> typecode(datatype.val),
                                 data |-> [i \in 1..a.n |->
                                   DecodeItem(typecode(datatype.val), a.items[i])]],
                pos |-> r.pos]

(* what the call hands back once the try block and its finally clause have  *)
(* run: the exception, if any, else the function runs off its end           *)
scalar_custom_result(t) ==
  IF t.exc # "" THEN Raise(t.exc, t.pos) ELSE ReturnNone(t.pos)

load_scalar_data_body(bs) == scalar_custom_result(scalar_try_block(bs))

(* scalar_data.ravel(order="F") of a rows x cols array: column-major        *)
ravelF(a) ==
  IF a = <<>> THEN <<>>
  ELSE LET nr == Len(a)
           nc == Len(a[1])
       IN [k \in 1..(nr * nc) |-> a[((k - 1) % nr) + 1][((k - 1) \div nr) + 1]]

(* the first try of load_scalar_data; lib is what nib.load(...).get_data()  *)
(* does with the file.  The result is "custom" when the custom decode is    *)
(* to open the file.                                                        *)
Exts == {".mgz", ".mgh", ".nii"}

load_scalar_data_first(lib, ext) ==
  IF lib.exc = "" THEN Return("array", [dtype |-> "lib", data |-> ravelF(lib.data)], 0)
  ELSE IF lib.exc # "ImageFileError" THEN Raise(lib.exc, 0)
  ELSE IF ext = ".mgz" \/ ext = ".mgh" THEN Return("custom", <<>>, 0)
  ELSE Raise("ValueError", 0)

(* ------------------------------------------------------------------ *)
(* read_annot                                                           *)
(* ------------------------------------------------------------------ *)
(* np.fromfile(fobj, dt, 1)[0] *)
ReadInt(bs, pos) ==
  LET r == fromfile(bs, pos, 4, 1)
  IN IF r.n = 0 THEN [exc |-> "IndexError", val |-> 0, pos |-> r.pos]
     ELSE [exc |-> "", val |-> S32(r.items[1]), pos |-> r.pos]

(* np.fromfile(fobj, "|S%d" % length, 1)[0]: numpy rejects the 0-sized      *)
(* dtype "|S0" and does not understand "|S-1"                               *)
ReadString(bs, pos, length) ==
  IF length = 0 THEN [exc |-> "ValueError", pos |-> pos]
  ELSE IF length < 0 THEN [exc |-> "TypeError", pos |-> pos]
  ELSE LET r == fromfile(bs, pos, length, 1)
       IN IF r.n = 0 THEN [exc |-> "IndexError", pos |-> r.pos]
          ELSE [exc |-> "", pos |-> r.pos]

any_negative_version(ctab_version) == ctab_version < 0

(* the only colour table layout that is decoded *)
version_supported(ctab_version) == ctab_version = -2

packed_id_base10(row) == row[1] + row[2] * 100 + row[3] * 10000 + row[4] * 1000000

packed_id(row) == row[1] + row[2] * 256 + row[3] * 65536 + row[4] * 16777216

(* the loop "for i in xrange(entries_to_read)", i counted from 0 *)
RECURSIVE annot_entries(_, _, _, _, _)
annot_entries(bs, pos, i, entries_to_read, ctab) ==
  IF i >= entries_to_read THEN Return("ctab", ctab, pos)
  ELSE
    LET structure == ReadInt(bs, pos) IN
    IF structure.exc # "" THEN Raise(structure.exc, structure.pos) ELSE
    LET name_length == ReadInt(bs, structure.pos) IN
    IF name_length.exc # "" THEN Raise(name_length.exc, name_length.pos) ELSE
    LET name == ReadString(bs, name_length.pos, name_length.val) IN
    IF name.exc # "" THEN Raise(name.exc, name.pos) ELSE
    LET rgba == fromfile(bs, name.pos, 4, 4) IN
    IF i >= Len(ctab) THEN Raise("IndexError", rgba.pos)
    ELSE IF rgba.n # 4 THEN Raise("ValueError", rgba.pos)
    ELSE
      LET c == [j \in 1..4 |-> S32(rgba.items[j])]
          row == c \o <<packed_id(c)>>
      IN annot_entries(bs, rgba.pos, i + 1, entries_to_read,
                       [ctab EXCEPT ![i + 1] = row])

read_annot_body(bs) ==
  LET vnum == ReadInt(bs, 0) IN
  IF vnum.exc # "" THEN Raise(vnum.exc, vnum.pos) ELSE
  LET data == fromfile(bs, vnum.pos, 4, vnum.val * 2) IN
  IF reshape(data.n, vnum.val, 2) = -2 THEN Raise("ValueError", data.pos) ELSE
  LET ctab_exists == ReadInt(bs, data.pos) IN
  IF ctab_exists.exc # "" THEN Raise(ctab_exists.exc, ctab_exists.pos) ELSE
  IF ctab_exists.val = 0 THEN ReturnNone(ctab_exists.pos) ELSE
  LET ctab_version == ReadInt(bs, ctab_exists.pos) IN
  IF ctab_version.exc # "" THEN Raise(ctab_version.exc, ctab_version.pos) ELSE
  IF ~version_supported(ctab_version.val) THEN ReturnNone(ctab_version.pos) ELSE
  LET n_entries == ReadInt(bs, ctab_version.pos) IN
  IF n_entries.exc # "" THEN Raise(n_entries.exc, n_entries.pos) ELSE
  IF n_entries.val < 0 THEN Raise("ValueError", n_entries.pos) ELSE
  LET ctab == [i \in 1..n_entries.val |-> <<0, 0, 0, 0, 0>>]
      length == ReadInt(bs, n_entries.pos)
  IN
  IF length.exc # "" THEN Raise(length.exc, length.pos) ELSE
  LET path == ReadString(bs, length.pos, length.val) IN
  IF path.exc # "" THEN Raise(path.exc, path.pos) ELSE
  LET entries_to_read == ReadInt(bs, path.pos) IN
  IF entries_to_read.exc # "" THEN Raise(entries_to_read.exc, entries_to_read.pos)
  ELSE annot_entries(bs, entries_to_read.pos, 0, entries_to_read.val, ctab)

(* ------------------------------------------------------------------ *)
(* open(filepath, "rb") followed by the decode                          *)
(* ------------------------------------------------------------------ *)
Missing == [exists |-> FALSE, bytes |-> <<>>]

File(bs) == [exists |-> TRUE, bytes |-> bs]

read_geometry(f) ==
  IF ~f.exists THEN Raise("IOError", 0) ELSE read_geometry_body(f.bytes)

read_curvature(f) ==
  IF ~f.exists THEN Raise("IOError", 0) ELSE read_curvature_body(f.bytes)

read_annot(f) ==
  IF ~f.exists THEN Raise("IOError", 0) ELSE read_annot_body(f.bytes)

(* gzip.open / open of a scalar file: the bytes the stream delivers.  A     *)
(* gzip container opened raw starts with the gzip magic; gzip.open of a     *)
(* file that is no gzip container fails at the first read.                  *)
GzipMagic == <<31, 139, 8, 0>>

scalar_stream(f, ext) ==
  IF ext = ".mgz"
  THEN (IF f.gz THEN [exc |-> "", bytes |-> f.bytes] ELSE [exc |-> "IOError", bytes |-> <<>>])
  ELSE (IF f.gz THEN [exc |-> "", bytes |-> GzipMagic] ELSE [exc |-> "", bytes |-> f.bytes])

load_scalar_data_custom(f, ext) ==
  LET st == scalar_stream(f, ext)
  IN IF st.exc # "" THEN Raise(st.exc, 0) ELSE load_scalar_data_body(st.bytes)

close_stream_unless_raised(h, o) == IF o.kind = "raise" THEN h ELSE h - 1

(* the with statement's exit and the finally clause: the handle is closed   *)
(* whatever the outcome o of the block                                      *)
close_stream(h, o) == h - 1

(* ------------------------------------------------------------------ *)
(* Input files                                                          *)
(* ------------------------------------------------------------------ *)
E24(n) == <<(n \div 65536) % 256, (n \div 256) % 256, n % 256>>

E16(n) == <<(n \div 256) % 256, n % 256>>

E32(n) == <<(n \div 16777216) % 256, (n \div 65536) % 256, (n \div 256) % 256, n % 256>>

Prefixes(bs) == {SubSeq(bs, 1, k) : k \in 0..Len(bs)}

TriangleMagic == 16777214

NewMagic == 16777215

(* binary32 encodings of 0.0, 1.0, -1.0, 0.5 *)
FloatBytes == << <<0, 0, 0, 0>>, <<63, 128, 0, 0>>, <<191, 128, 0, 0>>, <<63, 0, 0, 0>> >>

GeomBytes(magic, vnum, fnum) ==
  E24(magic) \o <<99, 10>> \o <<10>> \o E32(vnum) \o E32(fnum)
  \o Concat([k \in 1..(vnum * 3) |-> FloatBytes[(k % 4) + 1]])
  \o Concat([k \in 1..(fnum * 3) |-> E32((k - 1) % Max(vnum, 1))])

GeomMagics == {TriangleMagic, NewMagic, 5}

GeomInputs ==
  {Missing} \cup
  {File(b) : b \in UNION {Prefixes(GeomBytes(m, v, n)) :
                            m \in GeomMagics, v \in 0..MaxVtx, n \in 0..MaxFaces}}

RawValues == {100, -50, 0, 200, 1}

SeqsUpTo(S, n) == UNION {[1..k -> S] : k \in 0..n}

OldCurvBytes(raw) ==
  E24(Len(raw)) \o <<0, 0, 1>> \o Concat([k \in 1..Len(raw) |-> E16(raw[k])])

NewCurvBytes(vnum) ==
  E24(NewMagic) \o E32(vnum) \o E32(2 * vnum) \o E32(1)
  \o Concat([k \in 1..vnum |-> FloatBytes[(k % 4) + 1]])

CurvInputs ==
  {Missing} \cup
  {File(b) : b \in UNION ({Prefixes(OldCurvBytes(r)) : r \in SeqsUpTo(RawValues, MaxVtx)}
                          \cup {Prefixes(NewCurvBytes(v)) : v \in 0..MaxVtx})}

NoTableVersions == {-1, 2}

CtabVersion == -2

(* the i-th stored colour table entry: structure, name length, name, RGBA *)
AnnotEntry(i) ==
  E32(i) \o E32(1) \o <<65>> \o E32(10 * i) \o E32(20) \o E32(30 * i) \o E32((i - 1) % 2)

AnnotBytes(vnum, ctab_exists, ctab_version, n_entries, entries_to_read) ==
  E32(vnum) \o Concat([k \in 1..(2 * vnum) |-> E32(k + 6)])
  \o E32(ctab_exists) \o E32(ctab_version) \o E32(n_entries)
  \o E32(1) \o <<47>> \o E32(entries_to_read)
  \o Concat([i \in 1..entries_to_read |-> AnnotEntry(i)])

AnnotInputs ==
  {Missing} \cup
  {File(b) : b \in UNION {Prefixes(AnnotBytes(v, x, cv, n, r)) :
                            v \in 0..1, x \in {0, 1},
                            cv \in NoTableVersions \cup {CtabVersion},
                            n \in 0..MaxEntries, r \in 0..MaxEntries}}

ScalarVersions == {1, 2}

ScalarCodes == {0, 1, 2, 3, 4}

ScalarBytes(version, ndim1, nframes, datatype) ==
  E32(version) \o E32(ndim1) \o E32(1) \o E32(1) \o E32(nframes) \o E32(datatype)
  \o [k \in 1..(DataOffset - 24) |-> 0]
  \o Concat([k \in 1..(ndim1 * nframes) |->
               IF datatype = 3 THEN FloatBytes[(k % 4) + 1]
               ELSE IF datatype = 4 THEN E16(k - 2)
               ELSE IF datatype = 1 THEN E32(k - 2)
               ELSE <<(k + 254) % 256>>])

(* a scalar file is cut inside its header fields or inside its data *)
ScalarCuts(bs) ==
  {SubSeq(bs, 1, k) : k \in (0..24) \cup ((DataOffset - 1)..Len(bs))}

ScalarInputs ==
  {[exists |-> FALSE, bytes |-> <<>>, gz |-> FALSE]} \cup
  {[exists |-> TRUE, bytes |-> b, gz |-> g] :
     g \in BOOLEAN,
     b \in UNION {ScalarCuts(ScalarBytes(v, d, n, t)) :
                    v \in ScalarVersions, d \in 1..MaxVtx, n \in 1..2, t \in ScalarCodes}}

(* what the image library does with the file: an exception, or a volume *)
LibOutcomes ==
  {[exc |-> "ImageFileError", data |-> <<>>], [exc |-> "IOError", data |-> <<>>],
   [exc |-> "", data |-> << <<DyInt(1), DyInt(2)>>, <<DyInt(3), DyInt(4)>> >>]}

(* ------------------------------------------------------------------ *)
(* read_label                                                           *)
(* ------------------------------------------------------------------ *)
(* A label file is a sequence of lines, a line a sequence of whitespace-    *)
(* separated fields, a field a sequence of characters.                      *)
Digits == <<"0", "1", "2", "3", "4", "5", "6", "7", "8", "9">>

IsDigit(c) == \E d \in 1..10 : Digits[d] = c

DigitValue(c) == (CHOOSE d \in 1..10 : Digits[d] = c) - 1

RECURSIVE DecimalValue(_, _)
DecimalValue(cs, acc) ==
  IF cs = <<>> THEN acc ELSE DecimalValue(Tail(cs), acc * 10 + DigitValue(Head(cs)))

(* int(field): an optional sign and at least one digit *)
IsIntLiteral(cs) ==
  LET ds == IF cs # <<>> /\ Head(cs) \in {"-", "+"} THEN Tail(cs) ELSE cs
  IN ds # <<>> /\ \A i \in 1..Len(ds) : IsDigit(ds[i])

IntValue(cs) ==
  IF Head(cs) = "-" THEN 0 - DecimalValue(Tail(cs), 0)
  ELSE IF Head(cs) = "+" THEN DecimalValue(Tail(cs), 0)
  ELSE DecimalValue(cs, 0)

(* line.split("#")[0].split(): the fields before the first "#" *)
RECURSIVE strip_comment(_)
strip_comment(line) ==
  IF line = <<>> THEN <<>>
  ELSE LET fld == Head(line)
           cut == IF \E i \in 1..Len(fld) : fld[i] = "#"
                  THEN (CHOOSE i \in 1..Len(fld) :
                          fld[i] = "#" /\ \A j \in 1..(i - 1) : fld[j] # "#")
                  ELSE 0
       IN IF cut = 0 THEN <<fld>> \o strip_comment(Tail(line))
          ELSE IF cut = 1 THEN <<>>
          ELSE <<SubSeq(fld, 1, cut - 1)>>

(* np.loadtxt(filepath, dtype=np.int, skiprows=2, usecols=[0]): blank lines *)
(* are passed over; a file with no data row raises IOError in the numpy     *)
(* releases that do so and gives the empty array in the others (raises      *)
(* tells which).                                                            *)
read_label(f, raises) ==
  IF ~f.exists THEN Raise("IOError", 0)
  ELSE
    LET rows == SelectSeq([i \in 1..Max(Len(f.lines) - 2, 0) |-> strip_comment(f.lines[i + 2])],
                          LAMBDA l : l # <<>>)
    IN IF rows = <<>> THEN (IF raises THEN Raise("IOError", 0) ELSE Return("label", <<>>, 0))
       ELSE IF \E i \in 1..Len(rows) : ~IsIntLiteral(rows[i][1]) THEN Raise("ValueError", 0)
       ELSE Return("label", [i \in 1..Len(rows) |-> IntValue(rows[i][1])], 0)

(* ------------------------------------------------------------------ *)
(* Surface                                                              *)
(* ------------------------------------------------------------------ *)
(* an attribute of the instance: absent until it is first assigned *)
Absent == [set |-> FALSE, val |-> <<>>]

Attr(v) == [set |-> TRUE, val |-> v]

(* the instance __init__ leaves behind *)
NewSurface ==
  [coords |-> Absent, faces |-> Absent, curv |-> Absent, bin_curv |-> Absent,
   labels |-> Absent]

(* Surface(subject_id, hemi, surf): ValueError without SUBJECTS_DIR *)
Surface__init__(env) ==
  IF env THEN Return("surface", NewSurface, 0) ELSE Raise("ValueError", 0)

(* each operation gives the result of the call (res), the instance after it *)
(* (self) and the exception of the decoder it called, "" if that returned   *)
(* and "-" if none was called (dec)                                         *)
Outcome(res, self, dec) == [res |-> res, self |-> self, dec |-> dec]

load_geometry_clearing(self, r) ==
     IF r.kind = "raise"
     THEN Outcome(Raise(r.exc, 0), [self EXCEPT !.coords = Absent, !.faces = Absent], r.exc)
     ELSE Outcome(ReturnNone(0),
                  [self EXCEPT !.coords = Attr(r.val.coords), !.faces = Attr(r.val.faces)],
                  "")

(* r is what read_geometry(surf_path) returned or raised *)
load_geometry(self, r) ==
     IF r.kind = "raise" THEN Outcome(Raise(r.exc, 0), self, r.exc)
     ELSE Outcome(ReturnNone(0),
                  [self EXCEPT !.coords = Attr(r.val.coords), !.faces = Attr(r.val.faces)],
                  "")

axis_of_empty_default(self, col) ==
  IF ~self.coords.set THEN Outcome(Return("view", <<>>, 0), self, "-")
  ELSE Outcome(Return("view",
                      [i \in 1..Len(self.coords.val) |-> self.coords.val[i][col + 1]], 0),
               self, "-")

(* the x, y and z properties: column col of coords *)
axis(self, col) ==
  IF ~self.coords.set THEN Outcome(Raise("AttributeError", 0), self, "-")
  ELSE Outcome(Return("view",
                      [i \in 1..Len(self.coords.val) |-> self.coords.val[i][col + 1]], 0),
               self, "-")

(* r is what read_curvature(curv_path) returned or raised *)
load_curvature(self, r) ==
     IF r.kind = "raise" THEN Outcome(Raise(r.exc, 0), self, r.exc)
     ELSE Outcome(ReturnNone(0),
                  [self EXCEPT
                     !.curv = Attr(r.val),
                     !.bin_curv = Attr([i \in 1..Len(r.val.data) |->
                                          IF DyPositive(r.val.data[i]) THEN 1 ELSE 0])],
                  "")

(* label_array[label] = 1: IndexError unless -n <= index < n *)
RECURSIVE set_indices(_, _)
set_indices(label_array, label) ==
  IF label = <<>> THEN [err |-> FALSE, val |-> label_array]
  ELSE LET n == Len(label_array)
           i == Head(label)
       IN IF i >= n \/ i < 0 - n THEN [err |-> TRUE, val |-> label_array]
          ELSE set_indices([label_array EXCEPT ![(IF i < 0 THEN i + n ELSE i) + 1] = 1],
                           Tail(label))

(* dict(name=label_array): one entry, under the key "name" *)
first_labels(name, label_array) == [k \in {"name"} |-> label_array]

(* self.labels[name] = label_array *)
setitem(d, name, label_array) ==
  [k \in DOMAIN d \cup {name} |-> IF k = name THEN label_array ELSE d[k]]

(* r is what read_label(...) returned or raised *)
load_label(self, name, r) ==
     IF r.kind = "raise" THEN Outcome(Raise(r.exc, 0), self, r.exc)
     ELSE LET x == axis(self, 0)
          IN IF x.res.kind = "raise" THEN Outcome(x.res, self, "")
             ELSE LET a == set_indices([i \in 1..Len(x.res.val) |-> 0], r.val)
                  IN IF a.err THEN Outcome(Raise("IndexError", 0), self, "")
                     ELSE IF self.labels.set
                     THEN Outcome(ReturnNone(0),
                                  [self EXCEPT !.labels =
                                     Attr(setitem(self.labels.val, name, a.val))], "")
                     ELSE Outcome(ReturnNone(0),
                                  [self EXCEPT !.labels =
                                     Attr(first_labels(name, a.val))], "")

(* np.dot(np.c_[coords, ones], mtx.T)[:, :3] for a matrix of integers:      *)
(* ValueError unless mtx has 4 columns                                      *)
dot_row(v, m) ==
  DyAdd(DyAdd(DyMulInt(v[1], m[1]), DyMulInt(v[2], m[2])),
        DyAdd(DyMulInt(v[3], m[3]), DyMulInt(DyInt(1), m[4])))

apply_xfm(self, mtx) ==
  IF ~self.coords.set THEN Outcome(Raise("AttributeError", 0), self, "-")
  ELSE IF \E j \in 1..Len(mtx) : Len(mtx[j]) # 4
       THEN Outcome(Raise("ValueError", 0), self, "-")
  ELSE Outcome(ReturnNone(0),
               [self EXCEPT !.coords =
                  Attr([i \in 1..Len(self.coords.val) |->
                          [j \in 1..Min(Len(mtx), 3) |-> dot_row(self.coords.val[i], mtx[j])]])],
               "-")

(* ---- inputs of the Surface operations ---- *)
SurfGeomInputs ==
  {Missing, File(E24(NewMagic)), File(SubSeq(GeomBytes(TriangleMagic, 1, 1), 1, 20))}
  \cup {File(GeomBytes(TriangleMagic, v, MaxFaces)) : v \in (MaxVtx - 1)..MaxVtx}

(* the decoder calls the operations can make: a file and what its decoder   *)
(* does with it                                                             *)
SurfGeomCalls == {[file |-> f, result |-> read_geometry(f)] : f \in SurfGeomInputs}

SurfCurvInputs ==
  {Missing, File(<<0, 0>>), File(NewCurvBytes(2))}

SurfCurvCalls == {[file |-> f, result |-> read_curvature(f)] : f \in SurfCurvInputs}

Names == {"V1", "name"}

Chars(n) == IF n < 0 THEN <<"-", Digits[1 - n]>> ELSE <<Digits[n + 1]>>

(* the first column of the rows of a label that lists vertices 0, 1, 0, ... *)
RowFields(n) == [i \in 1..n |-> Chars((i - 1) % 2)]

LabelFile(ls) == [exists |-> TRUE, lines |-> ls]

(* two header lines, then one line for each vertex: index x y z value *)
LabelLines(rows) ==
  << <<<<"#">>>>, <<Chars(Len(rows))>> >>
  \o [i \in 1..Len(rows) |-> <<rows[i], <<"0", ".", "5">>>>]

LabelInputs ==
  {[exists |-> FALSE, lines |-> <<>>], LabelFile(<<>>), LabelFile(<< <<<<"#">>>> >>),
   LabelFile(LabelLines(<<Chars(1)>>)),
   LabelFile(LabelLines(<<Chars(3)>>)), LabelFile(LabelLines(<<Chars(-1)>>)),
   LabelFile(LabelLines(<< <<"x">> >>)),
   LabelFile(LabelLines(<<Chars(0)>>) \o << <<>>, <<<<"#">>, Chars(3)>>, <<<<"1", "#", "3">>>> >>)}
  \cup {LabelFile(LabelLines(RowFields(n))) : n \in 0..MaxRows}

(* either behaviour of loadtxt on a file without data *)
LabelCalls ==
  {[file |-> f, result |-> read_label(f, b)] : f \in LabelInputs, b \in BOOLEAN}

Identity4 == << <<1, 0, 0, 0>>, <<0, 1, 0, 0>>, <<0, 0, 1, 0>>, <<0, 0, 0, 1>> >>

(* x -> 2 - x *)
Reflect4 == << <<-1, 0, 0, 2>>, <<0, 1, 0, 0>>, <<0, 0, 1, 0>>, <<0, 0, 0, 1>> >>

Identity3 == << <<1, 0, 0>>, <<0, 1, 0>>, <<0, 0, 1>> >>

Matrices == {Identity4, Reflect4, Identity3}

(* ------------------------------------------------------------------ *)
(* State                                                                *)
(* ------------------------------------------------------------------ *)
VARIABLES
  fn,        \* the decoder under call
  arg,       \* the file at the path it is called with
  ext,       \* the extension of that path (load_scalar_data)
  lib,       \* what the image library does with the file (load_scalar_data)
  pc,        \* position of the decode call: "idle", "body" or "exit"
  handles,   \* number of open stream handles
  out,       \* outcome of the block, pending while the stream is closed
  ret,       \* what the last finished call returned or raised
  self,      \* the attributes of the Surface instance
  last,      \* the last operation on the instance and how it ended
  everGeom,  \* history: load_geometry has succeeded on this instance
  loaded     \* history: name -> the indices and vertex count of its last load

decodeVars == <<fn, arg, ext, lib, pc, handles, out, ret>>

surfaceVars == <<self, last, everGeom, loaded>>

vars == <<fn, arg, ext, lib, pc, handles, out, ret, self, last, everGeom, loaded>>

NoResult == [kind |-> "pending", exc |-> "", val |-> <<>>, pos |-> 0]

NoLib == [exc |-> "IOError", data |-> <<>>]

NoNames == [k \in {} |-> <<>>]

(* no decode call is under way *)
DecodeIdle ==
  /\ fn = ""
  /\ arg = Missing
  /\ ext = ""
  /\ lib = NoLib
  /\ pc = "idle"
  /\ handles = 0
  /\ out = NoResult
  /\ ret = NoResult

(* a Surface that has just been constructed *)
SurfaceNew ==
  /\ self = NewSurface
  /\ last = [op |-> "Surface", kind |-> "surface", exc |-> "", dec |-> "-"]
  /\ everGeom = FALSE
  /\ loaded = NoNames

(* ------------------------------------------------------------------ *)
(* The decoders, called on one file                                     *)
(* ------------------------------------------------------------------ *)
InitDecode ==
  /\ \/ fn = "read_geometry" /\ arg \in GeomInputs /\ ext = "" /\ lib = NoLib
     \/ fn = "read_curvature" /\ arg \in CurvInputs /\ ext = "" /\ lib = NoLib
     \/ fn = "read_annot" /\ arg \in AnnotInputs /\ ext = "" /\ lib = NoLib
     \/ fn = "load_scalar_data" /\ arg \in ScalarInputs /\ ext \in Exts
          /\ lib \in LibOutcomes
  /\ pc = "idle"
  /\ handles = 0
  /\ out = NoResult
  /\ ret = NoResult
  /\ SurfaceNew

(* open(filepath, "rb"): IOError when the file does not exist, else a new   *)
(* handle and the block of the decoder is entered                           *)
open ==
  /\ out' = NoResult
  /\ IF arg.exists
     THEN /\ handles' = handles + 1
          /\ pc' = "body"
          /\ ret' = NoResult
     ELSE /\ handles' = handles
          /\ pc' = "idle"
          /\ ret' = Raise("IOError", 0)
  /\ UNCHANGED <<fn, arg, ext, lib>>
  /\ UNCHANGED surfaceVars

call_read_geometry == pc = "idle" /\ fn = "read_geometry" /\ open

call_read_curvature == pc = "idle" /\ fn = "read_curvature" /\ open

call_read_annot == pc = "idle" /\ fn = "read_annot" /\ open

call_load_scalar_data ==
  /\ pc = "idle"
  /\ fn = "load_scalar_data"
  /\ LET r == load_scalar_data_first(lib, ext)
     IN IF r.kind = "custom"
        THEN open
        ELSE /\ ret' = r
             /\ UNCHANGED <<fn, arg, ext, lib, pc, handles, out>>
             /\ UNCHANGED surfaceVars

(* the block that runs while the stream is open *)
body ==
  /\ pc = "body"
  /\ out' = CASE fn = "read_geometry" -> read_geometry_body(arg.bytes)
              [] fn = "read_curvature" -> read_curvature_body(arg.bytes)
              [] fn = "read_annot" -> read_annot_body(arg.bytes)
              [] fn = "load_scalar_data" -> load_scalar_data_custom(arg, ext)
  /\ pc' = "exit"
  /\ UNCHANGED <<fn, arg, ext, lib, handles, ret>>
  /\ UNCHANGED surfaceVars

(* leaving the with statement or the try/finally: the stream is closed and  *)
(* the outcome reaches the caller                                           *)
exit ==
  /\ pc = "exit"
  /\ handles' = close_stream(handles, out)
  /\ ret' = out
  /\ pc' = "idle"
  /\ out' = NoResult
  /\ UNCHANGED <<fn, arg, ext, lib>>
  /\ UNCHANGED surfaceVars

NextDecode ==
  \/ call_read_geometry
  \/ call_read_curvature
  \/ call_read_annot
  \/ call_load_scalar_data
  \/ body
  \/ exit

SpecDecode == InitDecode /\ [][NextDecode]_vars

(* ------------------------------------------------------------------ *)
(* The Surface container                                                *)
(* ------------------------------------------------------------------ *)
Init == DecodeIdle /\ SurfaceNew

Ended(op, o) == [op |-> op, kind |-> o.res.kind, exc |-> o.res.exc, dec |-> o.dec]

(* a new Surface takes the place of the instance, unless __init__ raises *)
Construct ==
  /\ \E env \in BOOLEAN :
       LET r == Surface__init__(env)
       IN IF r.kind = "raise"
          THEN /\ last' = [op |-> "Surface", kind |-> "raise", exc |-> r.exc, dec |-> "-"]
               /\ UNCHANGED <<self, everGeom, loaded>>
          ELSE /\ self' = r.val
               /\ last' = [op |-> "Surface", kind |-> "surface", exc |-> "", dec |-> "-"]
               /\ everGeom' = FALSE
               /\ loaded' = NoNames
  /\ UNCHANGED decodeVars

LoadGeometry ==
  /\ \E c \in SurfGeomCalls :
       LET o == load_geometry(self, c.result)
       IN /\ self' = o.self
          /\ last' = Ended("load_geometry", o)
          /\ everGeom' = (everGeom \/ o.res.kind # "raise")
  /\ UNCHANGED loaded
  /\ UNCHANGED decodeVars

AxisView ==
  /\ \E col \in 0..2 :
       LET o == axis(self, col)
       IN /\ self' = o.self
          /\ last' = Ended(<<"x", "y", "z">>[col + 1], o)
  /\ UNCHANGED <<everGeom, loaded>>
  /\ UNCHANGED decodeVars

LoadCurvature ==
  /\ \E c \in SurfCurvCalls :
       LET o == load_curvature(self, c.result)
       IN /\ self' = o.self
          /\ last' = Ended("load_curvature", o)
  /\ UNCHANGED <<everGeom, loaded>>
  /\ UNCHANGED decodeVars

(* the index numpy sets for a listed index i of an array of n items *)
ListedIndex(i, n) == IF i < 0 THEN i + n ELSE i

LoadLabel ==
  /\ \E name \in Names, c \in LabelCalls :
       LET o == load_label(self, name, c.result)
           label == c.result.val
           nvtx == Len(self.coords.val)
       IN /\ self' = o.self
          /\ last' = Ended("load_label", o)
          /\ loaded' = IF o.res.kind = "raise" THEN loaded
                        ELSE setitem(loaded, name,
                               [idx |-> {ListedIndex(label[i], nvtx) : i \in 1..Len(label)},
                                nvtx |-> nvtx])
  /\ UNCHANGED everGeom
  /\ UNCHANGED decodeVars

ApplyXfm ==
  /\ \E mtx \in Matrices :
       LET o == apply_xfm(self, mtx)
       IN /\ self' = o.self
          /\ last' = Ended("apply_xfm", o)
  /\ UNCHANGED <<everGeom, loaded>>
  /\ UNCHANGED decodeVars

Next ==
  \/ Construct
  \/ LoadGeometry
  \/ AxisView
  \/ LoadCurvature
  \/ LoadLabel
  \/ ApplyXfm

Spec == Init /\ [][Next]_vars

(* ------------------------------------------------------------------ *)
(* Properties of the decoders                                           *)
(* ------------------------------------------------------------------ *)
Field32(bs, off) == S32(Slice(bs, off, 4))

Finished(name) == pc = "idle" /\ fn = name /\ ret.kind # "pending"

(* the custom decode of load_scalar_data is taken and meets a complete      *)
(* version 1 file with a known datatype code                                *)
ScalarCustomCase ==
  /\ fn = "load_scalar_data"
  /\ lib.exc = "ImageFileError"
  /\ ext \in {".mgz", ".mgh"}
  /\ arg.exists
  /\ scalar_stream(arg, ext).exc = ""
  /\ LET bs == scalar_stream(arg, ext).bytes
     IN /\ Len(bs) >= 24
        /\ Field32(bs, 0) = 1
        /\ Field32(bs, 20) \in DataTypes
        /\ Len(bs) >= DataOffset + Field32(bs, 4) * Field32(bs, 8) * Field32(bs, 12)
                                    * Field32(bs, 16) * databytes(Field32(bs, 20))

ScalarCount(bs) == Field32(bs, 4) * Field32(bs, 8) * Field32(bs, 12) * Field32(bs, 16)

(* C2: when load_scalar_data falls back to the custom decode of a version 1 *)
(* file with datatype code 0, 1, 3 or 4, the caller receives the flat       *)
(* sequence of dim1*dim2*dim3*frames elements decoded at offset 284.        *)
C2_CustomDecodeReturnsData ==
  (Finished("load_scalar_data") /\ ScalarCustomCase) =>
    LET bs == scalar_stream(arg, ext).bytes
    IN /\ ret.kind = "array"
       /\ Len(ret.val.data) = ScalarCount(bs)
       /\ \A i \in 1..ScalarCount(bs) :
            ret.val.data[i] =
              DecodeItem(typecode(Field32(bs, 20)),
                         Slice(bs, DataOffset + (i - 1) * databytes(Field32(bs, 20)),
                               databytes(Field32(bs, 20))))

(* a complete old-format curvature file *)
OldCurvCase ==
  /\ fn = "read_curvature"
  /\ arg.exists
  /\ Len(arg.bytes) >= 6
  /\ U24(arg.bytes) # NewMagic
  /\ Len(arg.bytes) >= 6 + 2 * U24(arg.bytes)

(* C3: for an old-format curvature file read_curvature returns, for each    *)
(* raw int16 value r, exactly r/100 (fraction and sign kept).               *)
C3_OldFormatHundredths ==
  (Finished("read_curvature") /\ OldCurvCase) =>
    /\ ret.kind = "array"
    /\ Len(ret.val.data) = U24(arg.bytes)
    /\ \A i \in 1..U24(arg.bytes) :
         DyMulInt(ret.val.data[i], 100) = DyInt(S16(Slice(arg.bytes, 6 + 2 * (i - 1), 2)))

(* The number of bytes a decoder asks of a file with the given content: the *)
(* fields of the layout one after the other, each sized by the fields       *)
(* before it.  A file shorter than this ends before the decoder has been    *)
(* supplied everything it requests.                                         *)
GeomRequested(bs) ==
  IF Len(bs) < 3 THEN 3
  ELSE IF U24(bs) # TriangleMagic THEN 3
  ELSE LET p1 == readline(bs, 3)
           p2 == readline(bs, p1)
       IN IF p1 = 3 \/ bs[p1] # 10 \/ p2 = p1 \/ bs[p2] # 10 THEN Len(bs) + 1
          ELSE IF Len(bs) < p2 + 8 THEN p2 + 8
          ELSE p2 + 8 + 12 * Max(Field32(bs, p2), 0) + 12 * Max(Field32(bs, p2 + 4), 0)

CurvRequested(bs) ==
  IF Len(bs) < 3 THEN 3
  ELSE IF U24(bs) = NewMagic
       THEN (IF Len(bs) < 15 THEN 15 ELSE 15 + 4 * Max(Field32(bs, 3), 0))
       ELSE 6 + 2 * U24(bs)

ScalarRequested(bs) ==
  IF Len(bs) < 4 THEN 4
  ELSE IF Field32(bs, 0) # 1 THEN 4
  ELSE IF Len(bs) < 24 THEN 24
  ELSE IF Field32(bs, 20) \notin DataTypes \/ ScalarCount(bs) <= 0 THEN 24
  ELSE DataOffset + ScalarCount(bs) * databytes(Field32(bs, 20))

RECURSIVE AnnotEntriesRequested(_, _, _)
AnnotEntriesRequested(bs, off, todo) ==
  IF todo <= 0 THEN off
  ELSE IF Len(bs) < off + 8 THEN off + 8
  ELSE IF Field32(bs, off + 4) <= 0 THEN off + 8
  ELSE IF Len(bs) < off + 8 + Field32(bs, off + 4) + 16
       THEN off + 8 + Field32(bs, off + 4) + 16
  ELSE AnnotEntriesRequested(bs, off + 8 + Field32(bs, off + 4) + 16, todo - 1)

AnnotRequested(bs) ==
  IF Len(bs) < 4 THEN 4
  ELSE LET flag == 4 + 8 * Max(Field32(bs, 0), 0)
       IN IF Len(bs) < flag + 4 THEN flag + 4
          ELSE IF Field32(bs, flag) = 0 THEN flag + 4
          ELSE IF Len(bs) < flag + 8 THEN flag + 8
          ELSE IF Field32(bs, flag + 4) # CtabVersion THEN flag + 8
          ELSE IF Len(bs) < flag + 16 THEN flag + 16
          ELSE IF Field32(bs, flag + 8) < 0 \/ Field32(bs, flag + 12) <= 0 THEN flag + 16
          ELSE LET etr == flag + 16 + Field32(bs, flag + 12)
               IN IF Len(bs) < etr + 4 THEN etr + 4
                  ELSE AnnotEntriesRequested(bs, etr + 4,
                         Min(Field32(bs, etr), Field32(bs, flag + 8) + 1))

(* the stream a decoder reads ends before the bytes it requests *)
Truncated ==
  /\ arg.exists
  /\ CASE fn = "read_geometry" -> Len(arg.bytes) < GeomRequested(arg.bytes)
       [] fn = "read_curvature" -> Len(arg.bytes) < CurvRequested(arg.bytes)
       [] fn = "read_annot" -> Len(arg.bytes) < AnnotRequested(arg.bytes)
       [] fn = "load_scalar_data" ->
            /\ load_scalar_data_first(lib, ext).kind = "custom"
            /\ scalar_stream(arg, ext).exc = ""
            /\ Len(scalar_stream(arg, ext).bytes)
                 < ScalarRequested(scalar_stream(arg, ext).bytes)

(* C4: a decode of a file that ends before all the bytes the decoder        *)
(* requests fails with an error and returns no result; no decoder returns   *)
(* an array shorter than the count its header declares.                     *)
C4_TruncatedReadFails ==
  (pc = "idle" /\ ret.kind # "pending" /\ Truncated) => ret.kind = "raise"

(* C6: a decode holds at most one stream handle, and none once the call has *)
(* returned or raised.                                                      *)
C6_StreamClosedOnExit ==
  /\ handles \in {0, 1}
  /\ pc = "idle" => handles = 0
  /\ pc \in {"body", "exit"} => handles = 1

(* a decode that raised inside its block has come back to the caller *)
C6_Witness ==
  /\ pc = "idle"
  /\ arg.exists
  /\ ret.kind = "raise"
  /\ ret.exc \in {"KeyError", "NotImplementedError", "IndexError"}

(* offsets of the fields of an annotation file *)
AnnotFlagOffset(bs) == 4 + 8 * Field32(bs, 0)

AnnotHasFlag(bs) == Len(bs) >= 4 /\ Field32(bs, 0) >= 0 /\ Len(bs) >= AnnotFlagOffset(bs) + 4

AnnotHasVersion(bs) == AnnotHasFlag(bs) /\ Len(bs) >= AnnotFlagOffset(bs) + 8

(* C8: read_annot of a file whose ctab_exists is 0, or whose ctab_exists is *)
(* non-zero and whose ctab_version is not -2, ends with the "no table"      *)
(* result without reading n_entries or anything after it; a Color Table is  *)
(* returned only for a non-zero ctab_exists and ctab_version -2.            *)
C8_NoTableIsNotAnError ==
  (Finished("read_annot") /\ arg.exists) =>
    LET bs == arg.bytes
        flag == AnnotFlagOffset(bs)
    IN /\ (AnnotHasFlag(bs) /\ Field32(bs, flag) = 0) =>
            (ret.kind = "none" /\ ret.pos = flag + 4)
       /\ (AnnotHasVersion(bs) /\ Field32(bs, flag) # 0 /\ Field32(bs, flag + 4) # -2) =>
            (ret.kind = "none" /\ ret.pos = flag + 8)
       /\ ret.kind = "ctab" =>
            (AnnotHasVersion(bs) /\ Field32(bs, flag) # 0 /\ Field32(bs, flag + 4) = -2)

(* an unsupported table version has ended the decode with "no table", with  *)
(* the table's fields present in the file and left unread                   *)
C8_Witness ==
  /\ Finished("read_annot")
  /\ arg.exists
  /\ AnnotHasVersion(arg.bytes)
  /\ Field32(arg.bytes, AnnotFlagOffset(arg.bytes)) # 0
  /\ Field32(arg.bytes, AnnotFlagOffset(arg.bytes) + 4) \in NoTableVersions
  /\ Len(arg.bytes) > AnnotFlagOffset(arg.bytes) + 12
  /\ ret.kind = "none"

(* offset of the i-th stored entry (i from 1), the first one at off *)
RECURSIVE AnnotEntryOffset(_, _, _)
AnnotEntryOffset(bs, off, i) ==
  IF i <= 1 THEN off
  ELSE AnnotEntryOffset(bs, off + 8 + Field32(bs, off + 4) + 16, i - 1)

(* the rows of a returned Color Table against the entries stored in the file *)
ColorTableRows ==
  (Finished("read_annot") /\ ret.kind = "ctab") =>
    LET bs == arg.bytes
        flag == AnnotFlagOffset(bs)
        n_entries == Field32(bs, flag + 8)
        etr == flag + 16 + Field32(bs, flag + 12)
        entries_to_read == Field32(bs, etr)
        Stored(i, j) ==
          LET off == AnnotEntryOffset(bs, etr + 4, i)
          IN Field32(bs, off + 8 + Field32(bs, off + 4) + 4 * (j - 1))
    IN /\ Len(ret.val) = n_entries
       /\ \A i \in 1..n_entries : Len(ret.val[i]) = 5
       /\ entries_to_read <= n_entries
       /\ \A i \in 1..n_entries :
            IF i <= entries_to_read
            THEN /\ \A j \in 1..4 : ret.val[i][j] = Stored(i, j)
                 /\ ret.val[i][5] = Stored(i, 1) + Stored(i, 2) * (2 ^ 8)
                                    + Stored(i, 3) * (2 ^ 16) + Stored(i, 4) * (2 ^ 24)
            ELSE ret.val[i] = <<0, 0, 0, 0, 0>>

(* the packed id of every row R=10, G=20, B=30, A=0 of a returned table *)
ExamplePackedId(id) ==
  (Finished("read_annot") /\ ret.kind = "ctab") =>
    \A i \in 1..Len(ret.val) :
      SubSeq(ret.val[i], 1, 4) = <<10, 20, 30, 0>> => ret.val[i][5] = id

Indicator(l) == [i \in 1..l.nvtx |-> IF (i - 1) \in l.idx THEN 1 ELSE 0]

(* C1: after successful load_label calls, the first one included, the Label *)
(* Set has an entry under exactly the names that were loaded, each the      *)
(* indicator vector of the most recent load of that name.                   *)
C1_LabelSetKeyedByName ==
  /\ self.labels.set <=> DOMAIN loaded # {}
  /\ self.labels.set =>
       /\ DOMAIN self.labels.val = DOMAIN loaded
       /\ \A n \in DOMAIN loaded : self.labels.val[n] = Indicator(loaded[n])

LoadOps == {"load_geometry", "load_curvature", "load_label"}

(* C5: a Surface load operation that fails leaves every field of the        *)
(* instance as it was; coords and faces are set together, and so are curv   *)
(* and bin_curv.                                                            *)
C5_FailedLoadIsAtomic ==
  [][ /\ (last'.op \in LoadOps /\ last'.kind = "raise") => self' = self
      /\ self'.coords.set <=> self'.faces.set
      /\ self'.curv.set <=> self'.bin_curv.set
      /\ (last'.op = "load_geometry" /\ self'.faces # self.faces) => last'.kind # "raise"
      /\ (self'.bin_curv # self.bin_curv \/ self'.curv # self.curv) =>
           (last'.op \in {"load_curvature", "Surface"} /\ last'.kind # "raise") ]_vars

(* a load has failed on an instance that holds geometry, curvature and      *)
(* labels                                                                   *)
C5_Witness ==
  /\ last.op = "load_geometry"
  /\ last.kind = "raise"
  /\ last.exc = "ValueError"
  /\ self.coords.set
  /\ self.curv.set
  /\ self.labels.set

AxisOps == {"x", "y", "z"}

(* C7 as stated: without a successful load_geometry, x, y, z, load_label    *)
(* and apply_xfm all fail with a missing-dependency error and the instance  *)
(* stays without coords, faces and labels; load_curvature succeeds.         *)
C7_MissingDependency ==
  ~everGeom =>
    /\ ~self.coords.set /\ ~self.faces.set /\ ~self.labels.set
    /\ last.op \in AxisOps \cup {"load_label", "apply_xfm"} =>
         (last.kind = "raise" /\ last.exc = "AttributeError")
    /\ (last.op = "load_curvature" /\ last.dec = "") => last.kind # "raise"

(* C7 as amended: load_label fails with the missing-dependency error when   *)
(* the Label Decoder has returned the label, and with the Label Decoder's   *)
(* error when that has failed first.                                        *)
C7_MissingDependencyAfterDecode ==
  ~everGeom =>
    /\ ~self.coords.set /\ ~self.faces.set /\ ~self.labels.set
    /\ last.op \in AxisOps \cup {"apply_xfm"} =>
         (last.kind = "raise" /\ last.exc = "AttributeError")
    /\ last.op = "load_label" =>
         /\ last.kind = "raise"
         /\ last.dec = "" => last.exc = "AttributeError"
         /\ last.dec # "" => last.exc = last.dec
    /\ (last.op = "load_curvature" /\ last.dec = "") => last.kind # "raise"

(* load_label has failed for want of geometry on an instance whose          *)
(* curvature is loaded                                                      *)
C7_Witness ==
  /\ ~everGeom
  /\ self.curv.set
  /\ last.op = "load_label"
  /\ last.dec = ""
  /\ last.exc = "AttributeError"

(* C10: every indicator vector of the Label Set is binary, as long as the   *)
(* current vertex count, and 1 exactly at the indices its label file lists. *)
C10_LabelVectorsFitGeometry ==
  self.labels.set =>
    \A k \in DOMAIN self.labels.val :
      LET v == self.labels.val[k]
      IN /\ \A i \in 1..Len(v) : v[i] \in {0, 1}
         /\ Len(v) = Len(self.coords.val)
         /\ k \in DOMAIN loaded =>
              \A i \in 1..Len(v) : (v[i] = 1 <=> (i - 1) \in loaded[k].idx)

====
